---- MODULE Spec2Model ----
(***************************************************************************)
(* A model of signhere/utils.py: anchor-name resolution, placement         *)
(* settings, placement geometry and the add_images_to_pdf driver.          *)
(*                                                                         *)
(* Strings are sequences of symbols.  A symbol is either the underscore    *)
(* "_" or a word: a run of characters that neither starts nor ends with    *)
(* an underscore and holds no double underscore ("x_offset" is one word).  *)
(* Python's split / rsplit / join / re.search on such strings are the      *)
(* operators Split, RSplit1, Join and Search below.                        *)
(*                                                                         *)
(* Numbers are fixed-point with one binary fractional digit (a count of    *)
(* halves), so that the scalar 0.5 is exact: Whole(n) is the number n.     *)
(* Raw coordinates are whole, so every product the code forms is exact.    *)
(***************************************************************************)
EXTENDS Integers, Sequences, FiniteSets, TLC

VARIABLES
    call,                \* the call under way: the function's name and its arguments
    ret,                 \* what the call returned or raised (NoResult while it runs)
    placement_settings,  \* the settings table (after line 120's "or {}")
    metadata,            \* add_images_to_pdf: one anchor map per page, in dict order
    dynamic_text,        \* add_images_to_pdf: the text map
    only_matches,        \* add_images_to_pdf: the name filter, or None
    page_numbers,        \* add_images_to_pdf: the page filter, or None
    docs,                \* the Document objects that exist, by identity, with their pages
    pdf,                 \* the driver's local pdf: the identity of the document it stamps
    pc,                  \* position of the driver
    page,                \* the driver's page index (0-based)
    item,                \* index of the current anchor in the page's map (1-based)
    coord,               \* index of the next coordinate pair of the current anchor
    cur,                 \* the current anchor as resolved: name, type, settings, content
    trace                \* the run's external effects in order: lookups, loads, placements

vars == <<call, ret, placement_settings, metadata, dynamic_text, only_matches,
          page_numbers, docs, pdf, pc, page, item, coord, cur, trace>>

driverVars == <<metadata, dynamic_text, only_matches, page_numbers,
                pdf, pc, page, item, coord, cur, trace>>

----------------------------------------------------------------------------
(* Numbers *)

Whole(n) == 2 * n
Halves(n) == n
Mul(a, b) == (a * b) \div 2

----------------------------------------------------------------------------
(* Strings *)

W(w) == <<w>>
Empty == <<>>

\* Optional arguments: None, or a value.  Python's truth test of an optional
\* string or list is false for None and for the empty value.
None == [some |-> FALSE, v |-> <<>>]
Some(v) == [some |-> TRUE, v |-> v]
Truthy(o) == o.some /\ o.v # <<>>

SEPARATOR == <<"_", "_">>
DYNAMIC_TEXT == W("text")

\* s starts with SEPARATOR at position i
SepAt(s, i) == i + 1 <= Len(s) /\ s[i] = "_" /\ s[i + 1] = "_"

RECURSIVE SplitAcc(_, _)
SplitAcc(rest, acc) ==
    IF rest = <<>> THEN <<acc>>
    ELSE IF SepAt(rest, 1) THEN <<acc>> \o SplitAcc(SubSeq(rest, 3, Len(rest)), <<>>)
    ELSE SplitAcc(Tail(rest), Append(acc, Head(rest)))

\* str.split(SEPARATOR): occurrences are found left to right
Split(s) == SplitAcc(s, <<>>)

\* str.rsplit(SEPARATOR, 1): the rightmost occurrence only
RSplit1(s) ==
    LET hits == {i \in 1..Len(s) : SepAt(s, i)}
    IN  IF hits = {} THEN <<s>>
        ELSE LET i == CHOOSE h \in hits : \A g \in hits : g <= h
             IN  <<SubSeq(s, 1, i - 1), SubSeq(s, i + 2, Len(s))>>

RECURSIVE Join(_)
\* SEPARATOR.join(parts)
Join(parts) ==
    IF parts = <<>> THEN <<>>
    ELSE IF Len(parts) = 1 THEN parts[1]
    ELSE parts[1] \o SEPARATOR \o Join(Tail(parts))

\* re.search(pattern, s) for a pattern without metacharacters: a substring test.
\* Patterns are whole words, and no word of the names used holds another one.
Search(pattern, s) ==
    \E i \in 1..(Len(s) + 1) :
        /\ i + Len(pattern) - 1 <= Len(s)
        /\ SubSeq(s, i, i + Len(pattern) - 1) = pattern

\* [s for s in parts if s]
NonEmpty(parts) == SelectSeq(parts, LAMBDA s : s # <<>>)

----------------------------------------------------------------------------
(* Dictionaries: functions from strings.  A value of a settings record is a *)
(* number or a nested record.                                              *)

Num(n) == [isDict |-> FALSE, n |-> n, d |-> <<>>]
Dict(d) == [isDict |-> TRUE, n |-> 0, d |-> d]

EmptyDict == [k \in {} |-> Num(0)]

\* dict.get(key, default)
Get(d, key, default) == IF key \in DOMAIN d THEN d[key] ELSE default

\* dict.update(other)
Update(d, other) ==
    [k \in (DOMAIN d) \cup (DOMAIN other) |-> IF k \in DOMAIN other THEN other[k] ELSE d[k]]

Fields == {W("x_offset"), W("y_offset"), W("max_x"), W("max_y"), W("x_scalar"), W("y_scalar")}

DEFAULT_PLACEMENT_SETTINGS ==
    [k \in Fields |-> IF k \in {W("x_scalar"), W("y_scalar")} THEN Num(Whole(1)) ELSE Num(Whole(0))]

----------------------------------------------------------------------------
(* Results of calls *)

Raised(e) == [ok |-> FALSE, err |-> e]
NoResult == [ok |-> FALSE, err |-> "none"]

----------------------------------------------------------------------------
(* make_image_name *)

\* the names a function body of utils.py can read besides its own parameters
ModuleNames ==
    {"re", "BytesIO", "Document", "Rect", "Callable", "List", "Dict", "Tuple", "NewType",
     "Union", "Optional", "Image", "AddImageArgumentError", "DEFAULT_PLACEMENT_SETTINGS",
     "ImageSettings", "PlacementSettings", "SEPARATOR", "DYNAMIC_TEXT", "make_image_name",
     "make_text_name", "add_images_to_pdf", "_add_dynamic_text", "_add_image",
     "_get_img_data", "add_image_to_pdf", "add_text_to_pdf", "_do_checks"}

make_image_name_params == <<"img_type", "name">>

\* make_image_name(*args): the body reads sub_type, which is neither a
\* parameter nor a module name
make_image_name(args) ==
    IF Len(args) # Len(make_image_name_params) THEN Raised("TypeError")
    ELSE IF "sub_type" \notin ModuleNames \cup {make_image_name_params[i] : i \in 1..Len(make_image_name_params)}
         THEN Raised("NameError")
    ELSE [ok |-> TRUE, name |-> args[1] \o SEPARATOR \o args[2]]

----------------------------------------------------------------------------
(* _get_img_data *)

\* _get_img_data taking a sub-variant from three-segment names only
_get_img_data_three(img_name, settings) ==
    LET split == Split(img_name)
        t0 == split[1]
        img_type == IF t0 \notin DOMAIN settings THEN DYNAMIC_TEXT ELSE t0
        img_settings == IF img_type \in DOMAIN settings THEN settings[img_type].d ELSE EmptyDict
        img_data == Update(DEFAULT_PLACEMENT_SETTINGS, img_settings)
        last == split[Len(split)]
    IN  IF Len(split) = 3 /\ last \in DOMAIN img_settings
        THEN IF img_settings[last].isDict
             THEN [ok |-> TRUE, name |-> Join(NonEmpty(SubSeq(split, 1, Len(split) - 1))),
                   type |-> img_type, data |-> Update(img_data, img_settings[last].d)]
             ELSE Raised("TypeError")
        ELSE [ok |-> TRUE, name |-> img_name, type |-> img_type, data |-> img_data]

\* _get_img_data with the category's settings merged over the sub-variant's
_get_img_data_order(img_name, settings) ==
    LET split == Split(img_name)
        t0 == split[1]
        img_type == IF t0 \notin DOMAIN settings THEN DYNAMIC_TEXT ELSE t0
        img_settings == IF img_type \in DOMAIN settings THEN settings[img_type].d ELSE EmptyDict
        img_data == Update(DEFAULT_PLACEMENT_SETTINGS, img_settings)
        last == split[Len(split)]
    IN  IF last \in DOMAIN img_settings
        THEN IF img_settings[last].isDict
             THEN [ok |-> TRUE, name |-> Join(NonEmpty(SubSeq(split, 1, Len(split) - 1))),
                   type |-> img_type,
                   data |-> Update(Update(DEFAULT_PLACEMENT_SETTINGS, img_settings[last].d), img_settings)]
             ELSE Raised("TypeError")
        ELSE [ok |-> TRUE, name |-> img_name, type |-> img_type, data |-> img_data]

_get_img_data(img_name, settings) ==
    LET split == Split(img_name)
        t0 == split[1]
        img_type == IF t0 \notin DOMAIN settings THEN DYNAMIC_TEXT ELSE t0
        img_settings == IF img_type \in DOMAIN settings THEN settings[img_type].d ELSE EmptyDict
        img_data == Update(DEFAULT_PLACEMENT_SETTINGS, img_settings)
        last == split[Len(split)]
    IN  IF last \in DOMAIN img_settings
        THEN IF img_settings[last].isDict
             THEN [ok |-> TRUE, name |-> Join(NonEmpty(SubSeq(split, 1, Len(split) - 1))),
                   type |-> img_type, data |-> Update(img_data, img_settings[last].d)]
             ELSE Raised("TypeError")   \* dict.update(number)
        ELSE [ok |-> TRUE, name |-> img_name, type |-> img_type, data |-> img_data]

----------------------------------------------------------------------------
(* Documents: a Document is a sequence of pages; a page records whether its *)
(* contents were cleaned and what was inserted into it, in order.          *)

BlankPage == [cleaned |-> FALSE, items |-> <<>>]
BlankDoc(n) == [i \in 1..n |-> BlankPage]

Rect(x0, y0, x1, y1) == <<x0, y0, x1, y1>>

TextBoxWidth == Whole(500)
TextBoxHeight == Whole(100)

\* _do_checks with the coordinate check written with "or"
_do_checks_either(page_num, x, y) ==
    IF ~(page_num >= 0) THEN Raised("AddImageArgumentError")
    ELSE IF ~(x >= 0 \/ y >= 0) THEN Raised("AddImageArgumentError")
    ELSE [ok |-> TRUE]

\* _do_checks: the first failing check raises
_do_checks(page_num, x, y) ==
    IF ~(page_num >= 0) THEN Raised("AddImageArgumentError")
    ELSE IF ~(x >= 0 /\ y >= 0) THEN Raised("AddImageArgumentError")
    ELSE [ok |-> TRUE]

\* document[page_num]; page.cleanContents(); page.insert...(rect, ...)
\* document is None or the pages of a Document; the result carries the new pages
InsertOnPage(document, page_num, it) ==
    IF ~document.some THEN Raised("TypeError")                 \* None[page_num]
    ELSE IF ~(page_num + 1 \in 1..Len(document.v)) THEN Raised("IndexError")
    ELSE [ok |-> TRUE,
          pages |-> [document.v EXCEPT ![page_num + 1] =
                        [cleaned |-> TRUE, items |-> Append(@.items, it)]]]

\* add_image_to_pdf with the far corner measured from x, y instead of the offset origin
add_image_to_pdf_corner(document, image_buffer, img_width, img_height, page_num, x, y, x_offset, y_offset) ==
    LET checks == _do_checks(page_num, x, y)
    IN  IF ~checks.ok THEN checks
        ELSE InsertOnPage(document, page_num,
                 [kind |-> "image",
                  rect |-> Rect(x + x_offset, y + y_offset, x + img_width, y + img_height),
                  content |-> image_buffer])

add_image_to_pdf(document, image_buffer, img_width, img_height, page_num, x, y, x_offset, y_offset) ==
    LET checks == _do_checks(page_num, x, y)
    IN  IF ~checks.ok THEN checks
        ELSE InsertOnPage(document, page_num,
                 [kind |-> "image",
                  rect |-> Rect(x + x_offset, y + y_offset,
                                x + x_offset + img_width, y + y_offset + img_height),
                  content |-> image_buffer])

add_text_to_pdf(document, text, page_num, x, y, x_offset, y_offset) ==
    LET checks == _do_checks(page_num, x, y)
    IN  IF ~checks.ok THEN checks
        ELSE InsertOnPage(document, page_num,
                 [kind |-> "text",
                  rect |-> Rect(x + x_offset, y + y_offset,
                                x + x_offset + TextBoxWidth, y + y_offset + TextBoxHeight),
                  content |-> text])

----------------------------------------------------------------------------
(* Inputs of the name and settings functions *)

MaxSegments == 4
MaxFieldsSet == 1

Segments == {W("image"), W("note"), W("bob"), W("small"), W("x_offset"), Empty, <<"b", "_">>}

AnchorNames == {Join(p) : p \in UNION {[1..k -> Segments] : k \in 1..MaxSegments}}

FieldNo(f) ==
    CASE f = W("x_offset") -> 1 [] f = W("y_offset") -> 2 [] f = W("max_x") -> 3
      [] f = W("max_y") -> 4 [] f = W("x_scalar") -> 5 [] f = W("y_scalar") -> 6

FieldSets == {S \in SUBSET Fields : Cardinality(S) <= MaxFieldsSet}

\* a settings record that sets the fields fs, each to a value that tells the
\* tier (base) and the field apart
Record(fs, base) == [k \in fs |-> Num(Whole(base + FieldNo(k)))]

WithSub(d, key, sub) == Update(d, [k \in {key} |-> Dict(sub)])

ImageDicts ==
    {Record(cs, 10) : cs \in FieldSets}
        \cup {WithSub(Record(cs, 10), W("small"), Record(ss, 20)) : cs \in FieldSets, ss \in FieldSets}

TextDicts ==
    {EmptyDict, WithSub(Record({W("x_offset")}, 30), W("small"), Record({W("y_offset")}, 40))}

Table(P, di, dt) == [c \in P |-> Dict(IF c = W("image") THEN di ELSE dt)]

SettingsTables ==
    {Table(P, di, dt) : P \in SUBSET {W("image"), DYNAMIC_TEXT}, di \in ImageDicts, dt \in TextDicts}

\* the tables the many anchor names are resolved against
NameTables ==
    {Table(P, WithSub(Record({W("x_offset"), W("max_x")}, 10), W("small"),
                      Record({W("x_offset"), W("max_x")}, 20)),
              WithSub(Record({W("x_offset")}, 30), W("small"), Record({W("y_offset")}, 40)))
        : P \in SUBSET {W("image"), DYNAMIC_TEXT}}

\* the anchor names the many tables are resolved for
SettingsNames ==
    {Join(p) : p \in {<<W("image"), W("bob")>>, <<W("image"), W("bob"), W("small")>>,
                       <<W("note"), W("bob"), W("small")>>, <<W("text"), W("small")>>,
                       <<W("note")>>}}

Labels == {W("bob"), W("small"), W("x_offset"), Empty, <<"b", "_">>}
Categories == {W("image"), DYNAMIC_TEXT, W("note")}

BuildArgs ==
    {<<c, l>> : c \in Categories, l \in Labels}
        \cup {<<c, l, s>> : c \in Categories, l \in Labels, s \in {W("small"), W("bob")}}

Idle ==
    /\ metadata = <<>> /\ dynamic_text = EmptyDict /\ only_matches = None
    /\ page_numbers = None /\ pdf = "none" /\ pc = "idle"
    /\ page = 0 /\ item = 0 /\ coord = 0 /\ cur = NoResult /\ trace = <<>>

InitName ==
    /\ Idle
    /\ docs = <<>>
    /\ ret = NoResult
    /\ \/ /\ placement_settings \in NameTables
          /\ call \in {[fn |-> "_get_img_data", args |-> <<n>>] : n \in AnchorNames}
       \/ /\ placement_settings \in SettingsTables
          /\ call \in {[fn |-> "_get_img_data", args |-> <<n>>] : n \in SettingsNames}
       \/ /\ placement_settings \in NameTables
          /\ call \in {[fn |-> "make_image_name", args |-> a] : a \in BuildArgs}

GetImgData ==
    /\ call.fn = "_get_img_data"
    /\ ret = NoResult
    /\ ret' = _get_img_data(call.args[1], placement_settings)
    /\ UNCHANGED <<call, placement_settings, docs>>
    /\ UNCHANGED driverVars

MakeImageName ==
    /\ call.fn = "make_image_name"
    /\ ret = NoResult
    /\ ret' = make_image_name(call.args)
    /\ UNCHANGED <<call, placement_settings, docs>>
    /\ UNCHANGED driverVars

NextName == GetImgData \/ MakeImageName

SpecName == InitName /\ [][NextName]_vars

----------------------------------------------------------------------------
(* Direct calls of add_image_to_pdf and add_text_to_pdf *)

MaxPages == 2
MaxXY == 1

TheDoc == "initial_pdf"

Coordinates == {Whole(n) : n \in -1..MaxXY}
Offsets == {Whole(-2), Whole(0), Halves(1)}

PlaceArgs ==
    [document : {None, Some(TheDoc)}, page_num : -1..MaxPages,
     x : Coordinates, y : Coordinates, x_offset : Offsets, y_offset : {Whole(0), Whole(-2)}]

InitCall ==
    /\ Idle
    /\ placement_settings = EmptyDict
    /\ docs = [d \in {TheDoc} |-> BlankDoc(MaxPages)]
    /\ ret = NoResult
    /\ call \in {[fn |-> f, args |-> a] : f \in {"add_image_to_pdf", "add_text_to_pdf"}, a \in PlaceArgs}

\* the Document object an argument refers to
Deref(d) == IF d.some THEN Some(docs[d.v]) ELSE None

\* the call's effect on the objects: a raised call leaves them as they are
Effect(d, r) == IF r.ok THEN [docs EXCEPT ![d.v] = r.pages] ELSE docs

CallAddImage ==
    /\ call.fn = "add_image_to_pdf"
    /\ ret = NoResult
    /\ LET a == call.args
           r == add_image_to_pdf(Deref(a.document), W("png"), Whole(32), Whole(32),
                                 a.page_num, a.x, a.y, a.x_offset, a.y_offset)
       IN  /\ ret' = IF r.ok THEN [ok |-> TRUE, doc |-> a.document.v] ELSE r
           /\ docs' = Effect(a.document, r)
    /\ UNCHANGED <<call, placement_settings>>
    /\ UNCHANGED driverVars

CallAddText ==
    /\ call.fn = "add_text_to_pdf"
    /\ ret = NoResult
    /\ LET a == call.args
           r == add_text_to_pdf(Deref(a.document), W("test"),
                                a.page_num, a.x, a.y, a.x_offset, a.y_offset)
       IN  /\ ret' = IF r.ok THEN [ok |-> TRUE, doc |-> a.document.v] ELSE r
           /\ docs' = Effect(a.document, r)
    /\ UNCHANGED <<call, placement_settings>>
    /\ UNCHANGED driverVars

NextCall == CallAddImage \/ CallAddText

SpecCall == InitCall /\ [][NextCall]_vars

----------------------------------------------------------------------------
(* add_images_to_pdf *)

\* the caller's img_loader: it fails for the names it has nothing for
img_loader(name) ==
    IF Search(W("ghost"), name) THEN Raised("LoaderError")
    ELSE [ok |-> TRUE, value |-> <<"loaded">> \o name]

\* pillow_img.crop(pillow_img.getbbox()), saved as PNG
CropToPng(img) == <<"png">> \o img

\* the driver stamping the caller's own Document object
NewDocumentFrom_alias(src) == [id |-> src, pages |-> docs[src]]

\* pdf = Document(); pdf.insertPDF(initial_pdf): a new object with the pages copied
NewDocumentFrom(src) == [id |-> "pdf", pages |-> docs[src]]

\* _add_dynamic_text without the lookup of the generalized name
TextToAdd_exactOnly(img_name, texts) ==
    IF img_name \in DOMAIN texts
    THEN [ok |-> TRUE, value |-> texts[img_name],
          events |-> <<[ev |-> "lookup", key |-> img_name, hit |-> TRUE]>>]
    ELSE LET loaded == img_loader(img_name)
         IN  [ok |-> loaded.ok,
              value |-> IF loaded.ok THEN loaded.value ELSE <<>>,
              events |-> <<[ev |-> "lookup", key |-> img_name, hit |-> FALSE],
                           [ev |-> "load", key |-> img_name, hit |-> loaded.ok]>>]

\* lines 172-181 of _add_dynamic_text: the text to add, and the lookups made for it
TextToAdd(img_name, texts) ==
    IF img_name \in DOMAIN texts
    THEN [ok |-> TRUE, value |-> texts[img_name],
          events |-> <<[ev |-> "lookup", key |-> img_name, hit |-> TRUE]>>]
    ELSE LET general == RSplit1(img_name)[1]
         IN  IF general \in DOMAIN texts
             THEN [ok |-> TRUE, value |-> texts[general],
                   events |-> <<[ev |-> "lookup", key |-> img_name, hit |-> FALSE],
                                [ev |-> "lookup", key |-> general, hit |-> TRUE]>>]
             ELSE LET loaded == img_loader(img_name)
                  IN  [ok |-> loaded.ok,
                       value |-> IF loaded.ok THEN loaded.value ELSE <<>>,
                       events |-> <<[ev |-> "lookup", key |-> img_name, hit |-> FALSE],
                                    [ev |-> "lookup", key |-> general, hit |-> FALSE],
                                    [ev |-> "load", key |-> img_name, hit |-> loaded.ok]>>]

\* lines 202-206 of _add_image: the image to add, and the load made for it
ImageToAdd(img_name) ==
    LET loaded == img_loader(img_name)
    IN  [ok |-> loaded.ok,
         value |-> IF loaded.ok THEN CropToPng(loaded.value) ELSE <<>>,
         events |-> <<[ev |-> "load", key |-> img_name, hit |-> loaded.ok]>>
                        \o (IF loaded.ok THEN <<[ev |-> "crop", key |-> img_name, hit |-> TRUE]>>
                                         ELSE <<>>)]

\* img_settings.get(key, default) of a number
Setting(img_settings, key, default) == Get(img_settings, W(key), Num(default)).n

\* the call _add_dynamic_text makes for one coordinate pair (lines 183-191)
PlaceText(document, text, page_num, coords, img_settings) ==
    add_text_to_pdf(document, text, page_num,
                    Mul(coords[1], Setting(img_settings, "x_scalar", Whole(1))),
                    Mul(coords[2], Setting(img_settings, "y_scalar", Whole(1))),
                    Setting(img_settings, "x_offset", Whole(0)),
                    Setting(img_settings, "y_offset", Whole(0)))

\* the call _add_image makes for one coordinate pair (lines 208-218)
PlaceImage(document, img, page_num, coords, img_settings) ==
    add_image_to_pdf(document, img,
                     Setting(img_settings, "max_x", Whole(0)),
                     Setting(img_settings, "max_y", Whole(0)),
                     page_num,
                     Mul(coords[1], Setting(img_settings, "x_scalar", Whole(1))),
                     Mul(coords[2], Setting(img_settings, "y_scalar", Whole(1))),
                     Setting(img_settings, "x_offset", Whole(0)),
                     Setting(img_settings, "y_offset", Whole(0)))

\* "page_numbers and page + 1 not in page_numbers"
PageExcluded(numbers, p) ==
    Truthy(numbers) /\ ~(\E i \in 1..Len(numbers.v) : numbers.v[i] = p + 1)

\* "only_matches and not re.search(only_matches, img_name)"
NameExcluded(pattern, img_name) == Truthy(pattern) /\ ~Search(pattern.v, img_name)

\* the events of one anchor, stamped with where the driver stands
At(events) == [i \in 1..Len(events) |-> [ev |-> events[i].ev, key |-> events[i].key,
                                         hit |-> events[i].hit, page |-> page, item |-> item]]

\* an exception leaves add_images_to_pdf: nothing is returned
Raise(err) ==
    /\ pc' = "raised"
    /\ ret' = Raised(err)

\* lines 120-124
Copy ==
    /\ pc = "start"
    /\ LET new == NewDocumentFrom(TheDoc)
       IN  /\ docs' = [d \in (DOMAIN docs) \cup {new.id} |-> IF d = new.id THEN new.pages ELSE docs[d]]
           /\ pdf' = new.id
    /\ pc' = "pages"
    /\ page' = 0
    /\ UNCHANGED <<call, ret, placement_settings, metadata, dynamic_text, only_matches,
                   page_numbers, item, coord, cur, trace>>

\* lines 125-131: one turn of the page loop, up to the start of the anchor loop
PageStep ==
    /\ pc = "pages"
    /\ page < Len(metadata)
    /\ IF metadata[page + 1] = <<>> \/ PageExcluded(page_numbers, page)
       THEN /\ page' = page + 1
            /\ UNCHANGED <<pc, item>>
       ELSE /\ pc' = "items"
            /\ item' = 1
            /\ UNCHANGED page
    /\ UNCHANGED <<call, ret, placement_settings, metadata, dynamic_text, only_matches,
                   page_numbers, docs, pdf, coord, cur, trace>>

\* lines 133-150 with lines 172-181 or 202-206: one turn of the anchor loop, up
\* to the start of the coordinate loop
ItemStep ==
    /\ pc = "items"
    /\ IF item > Len(metadata[page + 1])
       THEN /\ pc' = "pages"
            /\ page' = page + 1
            /\ UNCHANGED <<ret, item, coord, cur, trace>>
       ELSE LET entry == metadata[page + 1][item]
            IN  IF NameExcluded(only_matches, entry.name)
                THEN /\ item' = item + 1
                     /\ UNCHANGED <<ret, pc, page, coord, cur, trace>>
                ELSE LET data == _get_img_data(entry.name, placement_settings)
                         content == IF ~data.ok THEN data
                                    ELSE IF data.type = DYNAMIC_TEXT
                                         THEN TextToAdd(data.name, dynamic_text)
                                         ELSE ImageToAdd(data.name)
                     IN  /\ trace' = IF data.ok THEN trace \o At(content.events) ELSE trace
                         /\ IF ~data.ok THEN Raise(data.err) /\ UNCHANGED <<coord, cur>>
                            ELSE IF ~content.ok THEN Raise("LoaderError") /\ UNCHANGED <<coord, cur>>
                            ELSE /\ cur' = [ok |-> TRUE, name |-> data.name, type |-> data.type,
                                            data |-> data.data, content |-> content.value]
                                 /\ coord' = 1
                                 /\ pc' = "coords"
                                 /\ UNCHANGED ret
                         /\ UNCHANGED <<page, item>>
    /\ UNCHANGED <<call, placement_settings, metadata, dynamic_text, only_matches,
                   page_numbers, docs, pdf>>

\* lines 182-191 or 207-218: one turn of the coordinate loop
CoordStep ==
    /\ pc = "coords"
    /\ LET entry == metadata[page + 1][item]
       IN  IF coord > Len(entry.coords)
           THEN /\ pc' = "items"
                /\ item' = item + 1
                /\ UNCHANGED <<ret, docs, coord, trace>>
           ELSE LET r == IF cur.type = DYNAMIC_TEXT
                         THEN PlaceText(Some(docs[pdf]), cur.content, page, entry.coords[coord], cur.data)
                         ELSE PlaceImage(Some(docs[pdf]), cur.content, page, entry.coords[coord], cur.data)
                IN  IF r.ok
                    THEN /\ docs' = [docs EXCEPT ![pdf] = r.pages]
                         /\ trace' = Append(trace,
                                [ev |-> "place", key |-> cur.name, hit |-> TRUE, page |-> page,
                                 item |-> item, coord |-> coord,
                                 put |-> r.pages[page + 1].items[Len(r.pages[page + 1].items)]])
                         /\ coord' = coord + 1
                         /\ UNCHANGED <<ret, pc, item>>
                    ELSE /\ Raise(r.err)
                         /\ UNCHANGED <<docs, trace, coord, item>>
    /\ UNCHANGED <<call, placement_settings, metadata, dynamic_text, only_matches,
                   page_numbers, pdf, page, cur>>

\* line 160
Return ==
    /\ pc = "pages"
    /\ page >= Len(metadata)
    /\ pc' = "done"
    /\ ret' = [ok |-> TRUE, doc |-> pdf]
    /\ UNCHANGED <<call, placement_settings, metadata, dynamic_text, only_matches,
                   page_numbers, docs, pdf, page, item, coord, cur, trace>>

----------------------------------------------------------------------------
(* Inputs of add_images_to_pdf *)

Name2(a, b) == Join(<<W(a), W(b)>>)
Name3(a, b, c) == Join(<<W(a), W(b), W(c)>>)
Anchor(name, coords) == [name |-> name, coords |-> coords]

At100x50 == <<Whole(100), Whole(50)>>
AtOrigin == <<Whole(0), Whole(0)>>
LeftOfPage == <<Whole(-1), Whole(50)>>

PageMaps ==
    { <<>>,
      <<Anchor(Name2("image", "bob"), <<At100x50>>), Anchor(Name2("name", "bob"), <<At100x50, AtOrigin>>)>>,
      <<Anchor(Name2("date", "bob"), <<AtOrigin>>), Anchor(Name3("image", "bob", "small"), <<At100x50>>)>>,
      <<Anchor(Name2("image", "amy"), <<At100x50, LeftOfPage, AtOrigin>>), Anchor(Name2("name", "bob"), <<AtOrigin>>)>>,
      <<Anchor(Name2("memo", "ghost"), <<AtOrigin>>), Anchor(Name2("image", "bob"), <<At100x50>>)>>,
      <<Anchor(Name2("memo", "bob"), <<AtOrigin>>), Anchor(Name2("note", "x_offset"), <<AtOrigin>>)>> }

Metadatas == UNION {[1..n -> PageMaps] : n \in 0..MaxPages}

NumberRecord(f) == [k \in DOMAIN f |-> Num(f[k])]

ScaledImage ==
    NumberRecord([k \in Fields |->
        CASE k = W("x_scalar") -> Halves(1) [] k = W("y_scalar") -> Whole(2)
          [] k = W("x_offset") -> Whole(-10) [] k = W("y_offset") -> Whole(5)
          [] k = W("max_x") -> Whole(40) [] k = W("max_y") -> Whole(20)])

DriverTables ==
    { EmptyDict,
      [c \in {W("image")} |-> Dict(WithSub(ScaledImage, W("small"), [k \in {W("x_offset")} |-> Num(Whole(-60))]))],
      [c \in {W("image"), DYNAMIC_TEXT} |->
          Dict(IF c = W("image")
               THEN [k \in {W("max_x"), W("max_y")} |-> Num(Whole(50))]
               ELSE WithSub([k \in {W("x_offset")} |-> Num(Whole(7))], W("small"),
                            [k \in {W("y_offset")} |-> Num(Whole(11))]))] }

TextMaps ==
    { [k \in {} |-> <<>>],
      [k \in {Name2("name", "bob"), W("date")} |-> IF k = W("date") THEN W("9/12/2019") ELSE W("Alice")] }

NameFilters == {None, Some(Empty), Some(W("bob"))}

PageFilters == {None, Some(<<>>), Some(<<1, 2>>)} \cup {Some(<<p>>) : p \in 1..(MaxPages + 1)}

Init ==
    /\ call = [fn |-> "add_images_to_pdf", args |-> <<>>]
    /\ ret = NoResult
    /\ placement_settings \in DriverTables
    /\ metadata \in Metadatas
    /\ dynamic_text \in TextMaps
    /\ only_matches \in NameFilters
    /\ page_numbers \in PageFilters
    /\ docs = [d \in {TheDoc} |-> BlankDoc(MaxPages)]
    /\ pdf = "none" /\ pc = "start" /\ page = 0 /\ item = 0 /\ coord = 0
    /\ cur = NoResult /\ trace = <<>>

Next == Copy \/ PageStep \/ ItemStep \/ CoordStep \/ Return

Spec == Init /\ [][Next]_vars

----------------------------------------------------------------------------
(* Properties of the direct calls (SpecCall) *)

Called(fns) == call.fn \in fns /\ ret # NoResult
Rejected == ~ret.ok /\ ret.err = "AddImageArgumentError"

\* C1: add_image_to_pdf and add_text_to_pdf pass the precondition check when
\* page_num, x and y are all >= 0, and reject the call with the argument error
\* when any one of them is negative, whatever the others are; a rejected call
\* has touched no document, and is rejected even when the document is None.
C1_ChecksDecide ==
    Called({"add_image_to_pdf", "add_text_to_pdf"}) =>
        LET a == call.args
        IN  /\ (a.page_num >= 0 /\ a.x >= 0 /\ a.y >= 0) => ~Rejected
            /\ (a.page_num < 0 \/ a.x < 0 \/ a.y < 0) =>
                    Rejected /\ docs[TheDoc] = BlankDoc(MaxPages)

\* a call without a document and with only x negative was rejected by the check
C1_Witness ==
    /\ Called({"add_image_to_pdf"})
    /\ call.args.document = None
    /\ call.args.x < 0 /\ call.args.y >= 0 /\ call.args.page_num >= 0
    /\ Rejected

----------------------------------------------------------------------------
(* Properties of the name and settings functions (SpecName) *)

Segs == Split(call.args[1])
LastSeg == Segs[Len(Segs)]

\* the settings of the category an anchor name falls under
CategoryOf(name) ==
    IF Split(name)[1] \in DOMAIN placement_settings THEN Split(name)[1] ELSE DYNAMIC_TEXT
CategorySettings(name) ==
    IF CategoryOf(name) \in DOMAIN placement_settings
    THEN placement_settings[CategoryOf(name)].d ELSE EmptyDict

Baseline(f) == IF f \in {W("x_scalar"), W("y_scalar")} THEN Whole(1) ELSE Whole(0)

\* the effective value of field f under the three tiers; sub is a record or EmptyDict
Tiered(f, sub, cat) ==
    IF f \in DOMAIN sub THEN sub[f].n
    ELSE IF f \in DOMAIN cat THEN cat[f].n
    ELSE Baseline(f)

EffectiveIs(data, sub, cat) == \A f \in Fields : data[f].n = Tiered(f, sub, cat)

\* C3 as stated, for the resolutions that return: a sub-variant is taken from
\* names of exactly three segments whose last segment is a key of the
\* category's settings, the bare name then being the first two segments; every
\* other name keeps its full name and gets no sub-variant.
C3_ExactlyThree ==
    (Called({"_get_img_data"}) /\ ret.ok) =>
        LET cat == CategorySettings(call.args[1])
        IN  IF Len(Segs) = 3 /\ LastSeg \in DOMAIN cat
            THEN /\ ret.name = Join(<<Segs[1], Segs[2]>>)
                 /\ EffectiveIs(ret.data, cat[LastSeg].d, cat)
            ELSE /\ ret.name = call.args[1]
                 /\ EffectiveIs(ret.data, EmptyDict, cat)

\* C3 as amended: whatever the number of segments, a last segment that is a
\* key of the category's settings holding a sub-variant record selects that
\* sub-variant, and the bare name is the non-empty segments before it joined
\* by the separator; a last segment that is no key leaves the full name and
\* no sub-variant; a last segment that is a key holding a number raises.
C3_LastSegmentKey ==
    Called({"_get_img_data"}) =>
        LET cat == CategorySettings(call.args[1])
        IN  IF LastSeg \in DOMAIN cat
            THEN IF cat[LastSeg].isDict
                 THEN /\ ret.ok
                      /\ ret.name = Join(NonEmpty(SubSeq(Segs, 1, Len(Segs) - 1)))
                      /\ EffectiveIs(ret.data, cat[LastSeg].d, cat)
                 ELSE ~ret.ok /\ ret.err = "TypeError"
            ELSE /\ ret.ok
                 /\ ret.name = call.args[1]
                 /\ EffectiveIs(ret.data, EmptyDict, cat)

\* a two-segment name whose last segment is a sub-variant key lost that segment
C3_Witness ==
    /\ Called({"_get_img_data"})
    /\ call.args[1] = Join(<<W("image"), W("small")>>)
    /\ W("image") \in DOMAIN placement_settings
    /\ ret.ok /\ ret.name = W("image")
    /\ ret.data[W("x_offset")].n = Whole(21)

\* C4: for a declared category, make_image_name(category, label) returns
\* category__label without error and resolution recovers the category and
\* that bare name; with a sub-variant it returns category__label__sub_variant,
\* and resolution strips the sub-variant only when it is a configured key.
C4_RoundTrip ==
    (Called({"make_image_name"}) /\ call.args[1] \in DOMAIN placement_settings) =>
        /\ ret.ok
        /\ ret.name = Join(call.args)
        /\ LET back == _get_img_data(ret.name, placement_settings)
               two == Join(<<call.args[1], call.args[2]>>)
               keys == DOMAIN placement_settings[call.args[1]].d
           IN  /\ back.ok
               /\ back.type = call.args[1]
               /\ back.name = IF Len(call.args) = 3 /\ call.args[3] \notin keys
                               THEN ret.name ELSE two

\* C5: every field of the effective settings is the selected sub-variant's
\* value if the sub-variant sets it, else the category's value if the category
\* sets it, else the baseline (offsets 0, max 0, scalars 1).
C5_OverrideOrder ==
    (Called({"_get_img_data"}) /\ ret.ok) =>
        LET cat == CategorySettings(call.args[1])
            sub == IF LastSeg \in DOMAIN cat THEN cat[LastSeg].d ELSE EmptyDict
        IN  \A f \in Fields :
                ret.data[f].n =
                    IF f \in DOMAIN sub THEN sub[f].n
                    ELSE IF f \in DOMAIN cat THEN cat[f].n
                    ELSE IF f \in {W("x_scalar"), W("y_scalar")} THEN Whole(1) ELSE Whole(0)

\* a sub-variant and its category both set x_offset, differently, the category
\* alone sets another field, and a third field is set by neither
C5_Witness ==
    /\ Called({"_get_img_data"}) /\ ret.ok
    /\ LET cat == CategorySettings(call.args[1])
       IN  /\ LastSeg \in DOMAIN cat
           /\ W("x_offset") \in DOMAIN cat /\ W("x_offset") \in DOMAIN cat[LastSeg].d
           /\ cat[W("x_offset")].n # cat[LastSeg].d[W("x_offset")].n
           /\ ret.data[W("x_offset")].n = cat[LastSeg].d[W("x_offset")].n
           /\ W("y_offset") \notin DOMAIN cat /\ W("y_offset") \notin DOMAIN cat[LastSeg].d
           /\ ret.data[W("y_offset")].n = Whole(0)

----------------------------------------------------------------------------
(* Properties of add_images_to_pdf (Spec) *)

Events(kind) == {i \in 1..Len(trace) : trace[i].ev = kind}

\* the anchor an event belongs to, its raw coordinate pair, and its resolution
EntryOf(e) == metadata[e.page + 1][e.item]
RawOf(e) == EntryOf(e).coords[e.coord]
ResolvedOf(e) == _get_img_data(EntryOf(e).name, placement_settings)

\* C2: no image or text is ever written at a rectangle whose origin
\* x = raw_x * x_scalar + x_offset or y = raw_y * y_scalar + y_offset is
\* negative, whatever the scalars and offsets are.
C2_NoNegativeOrigin ==
    \A i \in Events("place") : trace[i].put.rect[1] >= 0 /\ trace[i].put.rect[2] >= 0

\* C6: the rectangle handed to the page is (x, y, x + width, y + height) with
\* x = raw_x * x_scalar + x_offset and y = raw_y * y_scalar + y_offset of the
\* effective settings; width and height are max_x and max_y for an image and
\* 500 and 100 for text; raw (100, 50) with scalars 0.5 and 2, offsets -10 and
\* 5 and a 40 by 20 box gives (40, 105, 80, 125).
C6_Geometry ==
    \A i \in Events("place") :
        LET e == trace[i]
            raw == RawOf(e)
            st == ResolvedOf(e).data
            x == Mul(raw[1], st[W("x_scalar")].n) + st[W("x_offset")].n
            y == Mul(raw[2], st[W("y_scalar")].n) + st[W("y_offset")].n
            width == IF e.put.kind = "image" THEN st[W("max_x")].n ELSE Whole(500)
            height == IF e.put.kind = "image" THEN st[W("max_y")].n ELSE Whole(100)
        IN  /\ e.put.rect = <<x, y, x + width, y + height>>
            /\ (/\ e.put.kind = "image" /\ raw = <<Whole(100), Whole(50)>>
                /\ \A f \in Fields : st[f] = ScaledImage[f])
                   => e.put.rect = <<Whole(40), Whole(105), Whole(80), Whole(125)>>
            /\ docs[pdf][e.page + 1].items[Cardinality({j \in Events("place") :
                    j <= i /\ trace[j].page = e.page})] = e.put

\* the example placement of C6 was made
C6_Witness ==
    \E i \in Events("place") :
        /\ trace[i].put.kind = "image"
        /\ RawOf(trace[i]) = <<Whole(100), Whole(50)>>
        /\ ResolvedOf(trace[i]).data[W("x_scalar")].n = Halves(1)
        /\ ResolvedOf(trace[i]).data[W("x_offset")].n = Whole(-10)
        /\ trace[i].put.rect = <<Whole(40), Whole(105), Whole(80), Whole(125)>>

\* the name up to its last separator (the whole name when it has none)
General(n) ==
    IF \E i \in 1..Len(n) : SepAt(n, i)
    THEN SubSeq(n, 1, (CHOOSE i \in 1..Len(n) : SepAt(n, i) /\ \A j \in (i + 1)..Len(n) : ~SepAt(n, j)) - 1)
    ELSE n

IsTextAnchor(e) == ResolvedOf(e).ok /\ ResolvedOf(e).type = DYNAMIC_TEXT

\* C7: the text rendered for a text anchor with bare name n is dynamic_text[n]
\* if n is a key, else dynamic_text[g] for g = n without its final segment if g
\* is a key, else content_loader(n); the loader is called only after both
\* lookups missed and never when n or g is a key.
C7_FallbackChain ==
    /\ \A i \in Events("place") :
          LET e == trace[i]
              n == ResolvedOf(e).name
          IN  e.put.kind = "text" =>
                e.put.content =
                    IF n \in DOMAIN dynamic_text THEN dynamic_text[n]
                    ELSE IF General(n) \in DOMAIN dynamic_text THEN dynamic_text[General(n)]
                    ELSE img_loader(n).value
    /\ \A i \in Events("load") :
          LET e == trace[i]
              n == ResolvedOf(e).name
          IN  IsTextAnchor(e) =>
                /\ e.key = n
                /\ n \notin DOMAIN dynamic_text /\ General(n) \notin DOMAIN dynamic_text
                /\ i >= 3
                /\ trace[i - 2].ev = "lookup" /\ trace[i - 2].key = n /\ ~trace[i - 2].hit
                /\ trace[i - 1].ev = "lookup" /\ trace[i - 1].key = General(n) /\ ~trace[i - 1].hit
                /\ trace[i - 2].page = e.page /\ trace[i - 2].item = e.item
                /\ trace[i - 1].page = e.page /\ trace[i - 1].item = e.item

\* one run placed a text found under the generalized key and a text the loader
\* supplied after both lookups missed
C7_Witness ==
    /\ \E i \in Events("place") :
          /\ trace[i].put.kind = "text"
          /\ trace[i].key \notin DOMAIN dynamic_text
          /\ General(trace[i].key) \in DOMAIN dynamic_text
          /\ trace[i].put.content = dynamic_text[General(trace[i].key)]
    /\ \E i \in Events("place") :
          /\ trace[i].put.kind = "text"
          /\ trace[i].put.content = <<"loaded">> \o trace[i].key
          /\ \E j \in Events("load") : j < i /\ trace[j].key = trace[i].key

\* a page or an anchor the filters, as supplied, let through
PageSelected(p) ==
    ~page_numbers.some \/ \E i \in 1..Len(page_numbers.v) : page_numbers.v[i] = p + 1
NameSelected(n) == ~only_matches.some \/ Search(only_matches.v, n)

SelectedPlacements ==
    UNION {UNION {{<<p, j, k>> : k \in 1..Len(metadata[p + 1][j].coords)}
                    : j \in {a \in 1..Len(metadata[p + 1]) : NameSelected(metadata[p + 1][a].name)}}
             : p \in {q \in 0..(Len(metadata) - 1) : PageSelected(q)}}

\* C8: a completed run has performed exactly one placement per coordinate pair
\* of each anchor on page index i such that no page filter is supplied or i + 1
\* is in the supplied list, and no name filter is supplied or the name matches
\* it, each on page index i; what a filter excludes causes no loader call.
C8_FilterSemantics ==
    pc = "done" =>
        /\ {<<trace[i].page, trace[i].item, trace[i].coord>> : i \in Events("place")} = SelectedPlacements
        /\ Cardinality(Events("place")) = Cardinality(SelectedPlacements)
        /\ \A p \in 1..Len(docs[pdf]) :
              Len(docs[pdf][p].items) = Cardinality({i \in Events("place") : trace[i].page = p - 1})
        /\ \A i \in Events("load") :
              PageSelected(trace[i].page) /\ NameSelected(EntryOf(trace[i]).name)

\* C9: the caller's document is never modified, all placements going to a
\* fresh copy; a failure stops the pass where it happens, nothing more is
\* placed, and no document is returned.
C9_AbortKeepsInput ==
    /\ docs[TheDoc] = BlankDoc(MaxPages)
    /\ pc # "start" => pdf # TheDoc
    /\ pc = "raised" => ~ret.ok /\ ret.err # "none" /\ ~ENABLED Next
    /\ ret.ok => pc = "done" /\ ret.doc = pdf
    /\ pc \notin {"done", "raised"} => ret = NoResult

\* a run failed after it had stamped the copy, with an anchor still to come
C9_Witness ==
    /\ pc = "raised"
    /\ Events("place") # {}
    /\ \E p \in 1..Len(docs[pdf]) : docs[pdf][p].items # <<>>
    /\ docs[TheDoc] = BlankDoc(MaxPages)
    /\ item < Len(metadata[page + 1])

\* the anchor the driver is at, once it is past the name filter
AtAnchor == pc \in {"coords", "raised"} /\ page < Len(metadata) /\ item \in 1..Len(metadata[page + 1])
Undeclared(n) == Split(n)[1] \notin DOMAIN placement_settings

\* C10: an anchor whose first segment is not a key of the settings table is
\* no error: it resolves, as the text category, to the baseline overridden by
\* the text category's settings, and goes through the text path, never through
\* the image path.
C10_UnknownIsText ==
    /\ (AtAnchor /\ Undeclared(metadata[page + 1][item].name)) =>
          /\ _get_img_data(metadata[page + 1][item].name, placement_settings).ok
          /\ pc = "raised" => ret.err # "TypeError"
          /\ pc = "coords" =>
                /\ cur.type = DYNAMIC_TEXT
                /\ LET cat == CategorySettings(metadata[page + 1][item].name)
                       last == Split(metadata[page + 1][item].name)[Len(Split(metadata[page + 1][item].name))]
                   IN  EffectiveIs(cur.data, IF last \in DOMAIN cat THEN cat[last].d ELSE EmptyDict, cat)
    /\ \A i \in 1..Len(trace) :
          Undeclared(EntryOf(trace[i]).name) =>
              /\ trace[i].ev # "crop"
              /\ trace[i].ev = "place" => trace[i].put.kind = "text"

====
